---- MODULE Spec2Model ----
(***************************************************************************)
(* A model of iammadab/ecdsa: the RU256 modular integer (src/src/ru256.rs), *)
(* the secp256k1 group (src/src/secp256k1.rs) and ECDSA signing and         *)
(* verification (src/src/ecdsa.rs).                                         *)
(*                                                                          *)
(* Scale.  The code works on 256-bit words over the secp256k1 parameters.   *)
(* The model keeps every algorithm as written and scales the word to W = 8  *)
(* bits and the curve to y^2 = x^3 + 7 over F_163, whose group has prime    *)
(* order 139.  The scaled parameters keep the relations of the real ones    *)
(* that the algorithms depend on:                                           *)
(*   2^(W-1) < N < P < 2^W          (order and prime in the top half word)  *)
(*   P, N prime, the group is cyclic of order N, cofactor 1                 *)
(*   no point has x = 0 or y = 0    ((0,0) is free to be the identity)      *)
(*   some point has x = N           (an r that is 0 modulo N exists)        *)
(*                                                                          *)
(* A panic (a failed expect, assert! or an overflowing U256 operator) is    *)
(* the value Panic; every operation given Panic returns Panic, as a Rust    *)
(* panic unwinds through the callers.                                       *)
(***************************************************************************)
EXTENDS Integers, Sequences, FiniteSets, TLC

\* Width of the word in bits (primitive_types::U256, scaled).
W == 8

\* Field prime SECP256K1::p(), group order SECP256K1::n(), generator g().
P == 163
N == 139
Gx == 2
Gy == 34

\* The value of a call that panicked.
Panic == -1

Pow2(k) == 2 ^ k

\* `let v = value; body`: body applied to the value, which is computed once.
Bind(value, body(_)) == body(value)

\* U256::MAX
MAX == Pow2(W) - 1

RU256 == 0 .. MAX

----------------------------------------------------------------------------
(* primitive_types::U256 operations used by the code                       *)

\* U256::checked_rem(p).expect(..): None, so a panic, when p = 0.
checked_rem(x, p) ==
    IF x = Panic \/ p = Panic THEN Panic
    ELSE IF p = 0 THEN Panic
    ELSE x % p

\* U256::checked_add(y).expect(..): None, so a panic, when the sum exceeds MAX.
checked_add(x, y) ==
    IF x = Panic \/ y = Panic THEN Panic
    ELSE IF x + y > MAX THEN Panic
    ELSE x + y

\* U256::checked_sub(y).expect(..) and the operator `-` of U256, which
\* panics ("arithmetic operation overflow") when y > x.
checked_sub(x, y) ==
    IF x = Panic \/ y = Panic THEN Panic
    ELSE IF y > x THEN Panic
    ELSE x - y

\* U256::overflowing_add: the wrapped sum and the overflow flag.
overflowing_add(x, y) ==
    [value |-> (x + y) % Pow2(W), has_overflow |-> x + y > MAX]

\* U256::bits(): the position of the highest set bit plus one, 0 for 0.
bits(x) == CHOOSE n \in 0 .. W : x < Pow2(n) /\ (n = 0 \/ x >= Pow2(n - 1))

\* U256::bit(i)
bit(x, i) == (x \div Pow2(i)) % 2 = 1

----------------------------------------------------------------------------
(* RU256                                                                    *)

zero == 0
one == 1

is_zero(x) == x = 0

\* add_mod without the correction of MAX - p + 1 after an overflowing add:
\* the wrapped sum is reduced as it is.
add_mod_no_correction(a, b, p) ==
    LET x1 == checked_rem(a, p)
        x2 == checked_rem(b, p)
    IN  IF x1 = Panic \/ x2 = Panic THEN Panic
        ELSE checked_rem(overflowing_add(x1, x2).value, p)

\* RU256::add_mod
add_mod(a, b, p) ==
    LET x1 == checked_rem(a, p)
        x2 == checked_rem(b, p)
    IN  IF x1 = Panic \/ x2 = Panic THEN Panic
        ELSE LET sum == overflowing_add(x1, x2)
                 x3  == IF sum.has_overflow
                        THEN checked_add(sum.value,
                                 checked_add(checked_sub(MAX, p), 1))
                        ELSE sum.value
             IN  checked_rem(x3, p)

\* sub_mod taking the complement of b as given, not of b mod p.
sub_mod_unreduced_complement(a, b, p) ==
    LET x1 == checked_rem(a, p)
        x2 == checked_rem(b, p)
    IN  IF x1 = Panic \/ x2 = Panic THEN Panic
        ELSE LET x2_complement == checked_sub(p, b)
             IN  add_mod(x1, x2_complement, p)

\* RU256::sub_mod
sub_mod(a, b, p) ==
    LET x1 == checked_rem(a, p)
        x2 == checked_rem(b, p)
    IN  IF x1 = Panic \/ x2 = Panic THEN Panic
        ELSE LET x2_complement == checked_sub(p, x2)
             IN  add_mod(x1, x2_complement, p)

\* The double-and-add loop of mul_mod from iteration i on: the result after
\* the last iteration.
RECURSIVE mul_loop(_, _, _, _, _, _)
mul_loop(seq, seq_bit_size, i, result, adder, p) ==
    IF result = Panic \/ adder = Panic THEN Panic
    ELSE IF i >= seq_bit_size THEN result
    ELSE mul_loop(seq, seq_bit_size, i + 1,
                  IF bit(seq, i) THEN add_mod(result, adder, p) ELSE result,
                  add_mod(adder, adder, p), p)

\* The values of the loop of mul_mod for the two moduli the curve and ECDSA
\* use, P and N, computed once by mul_loop and kept, for seq <= adder < p
\* (the order mul_mod puts them in).
MulMemoP ==
    [seq \in 0 .. P - 1 |->
        [adder \in seq .. P - 1 |->
            mul_loop(seq, bits(seq), 0, zero, adder, P)] @@ <<>>] @@ <<>>

MulMemoN ==
    [seq \in 0 .. N - 1 |->
        [adder \in seq .. N - 1 |->
            mul_loop(seq, bits(seq), 0, zero, adder, N)] @@ <<>>] @@ <<>>

\* The loop of mul_mod run on (seq, adder): looked up when kept, run
\* otherwise.
double_and_add(seq, adder, p) ==
    IF p = P THEN MulMemoP[seq][adder]
    ELSE IF p = N THEN MulMemoN[seq][adder]
    ELSE mul_loop(seq, bits(seq), 0, zero, adder, p)

\* mul_mod whose else branch forgets to take the other operand as the adder.
mul_mod_adder_slip(a, b, p) ==
    LET x1 == checked_rem(a, p)
        x2 == checked_rem(b, p)
    IN  IF x1 = Panic \/ x2 = Panic THEN Panic
        ELSE IF x1 < x2 THEN double_and_add(x1, x2, p)
        ELSE double_and_add(x2, x2, p)

\* RU256::mul_mod
mul_mod(a, b, p) ==
    LET x1 == checked_rem(a, p)
        x2 == checked_rem(b, p)
    IN  IF x1 = Panic \/ x2 = Panic THEN Panic
        ELSE IF x1 < x2 THEN double_and_add(x1, x2, p)
        ELSE double_and_add(x2, x1, p)

\* The square-and-multiply loop of exp_mod from iteration i on: the result
\* after the last iteration.
RECURSIVE exp_loop(_, _, _, _, _, _)
exp_loop(e, seq_bit_size, i, result, multiplier, p) ==
    IF result = Panic \/ multiplier = Panic THEN Panic
    ELSE IF i >= seq_bit_size THEN result
    ELSE exp_loop(e, seq_bit_size, i + 1,
                  IF bit(e, i) THEN mul_mod(result, multiplier, p)
                               ELSE result,
                  mul_mod(multiplier, multiplier, p), p)

\* The values of the loop of exp_mod for the exponents div_mod uses with the
\* moduli P and N, computed once by exp_loop and kept, for multiplier < p.
ExpMemoP ==
    [multiplier \in 0 .. P - 1 |->
        exp_loop(P - 2, bits(P - 2), 0, one, multiplier, P)] @@ <<>>

ExpMemoN ==
    [multiplier \in 0 .. N - 1 |->
        exp_loop(N - 2, bits(N - 2), 0, one, multiplier, N)] @@ <<>>

\* The loop of exp_mod run on (e, multiplier): looked up when kept, run
\* otherwise.
square_and_multiply(e, multiplier, p) ==
    IF multiplier = Panic THEN Panic
    ELSE IF p = P /\ e = P - 2 THEN ExpMemoP[multiplier]
    ELSE IF p = N /\ e = N - 2 THEN ExpMemoN[multiplier]
    ELSE exp_loop(e, bits(e), 0, one, multiplier, p)

\* RU256::exp_mod
exp_mod(a, e, p) ==
    IF a = Panic \/ e = Panic THEN Panic
    ELSE square_and_multiply(e, checked_rem(a, p), p)

\* div_mod raising b to p - 1, not p - 2.
div_mod_wrong_exponent(a, b, p) ==
    IF a = Panic \/ b = Panic \/ p = Panic THEN Panic
    ELSE LET p_minus_2 == checked_sub(p, 2)
         IN  IF p_minus_2 = Panic THEN Panic
             ELSE IF ~(p_minus_2 > 0) THEN Panic
             ELSE mul_mod(a, exp_mod(b, checked_sub(p, 1), p), p)

\* div_mod asserting p - 2 >= 0, not p - 2 > 0.
div_mod_weak_assert(a, b, p) ==
    IF a = Panic \/ b = Panic \/ p = Panic THEN Panic
    ELSE LET p_minus_2 == checked_sub(p, 2)
         IN  IF p_minus_2 = Panic THEN Panic
             ELSE IF ~(p_minus_2 >= 0) THEN Panic
             ELSE mul_mod(a, exp_mod(b, p_minus_2, p), p)

\* RU256::div_mod
div_mod(a, b, p) ==
    IF a = Panic \/ b = Panic \/ p = Panic THEN Panic
    ELSE LET p_minus_2 == checked_sub(p, 2)
         IN  IF p_minus_2 = Panic THEN Panic
             ELSE IF ~(p_minus_2 > 0) THEN Panic
             ELSE mul_mod(a, exp_mod(b, p_minus_2, p), p)

----------------------------------------------------------------------------
(* Point and SECP256K1                                                      *)

\* A Point { x, y } is the pair <<x, y>>; a call that panicked yields
\* PanicPoint.
PanicPoint == <<Panic, Panic>>

g == <<Gx, Gy>>

zero_point == <<zero, zero>>

\* Point::is_zero_point
is_zero_point(pt) == is_zero(pt[1]) /\ is_zero(pt[2])

\* The point a pair of coordinates makes, PanicPoint when computing either
\* of them panicked.
MkPoint(x, y) == IF x = Panic \/ y = Panic THEN PanicPoint ELSE <<x, y>>

\* SECP256K1::add_points
add_points(p1, p2) ==
    IF p1 = PanicPoint \/ p2 = PanicPoint THEN PanicPoint
    ELSE IF ~(p1 # p2) THEN PanicPoint
    ELSE IF is_zero_point(p1) THEN p2
    ELSE IF is_zero_point(p2) THEN p1
    ELSE Bind(div_mod(sub_mod(p1[2], p2[2], P),
                      sub_mod(p1[1], p2[1], P), P), LAMBDA lambda :
         Bind(sub_mod(sub_mod(mul_mod(lambda, lambda, P), p1[1], P),
                      p2[1], P), LAMBDA x3 :
         Bind(sub_mod(mul_mod(sub_mod(p1[1], x3, P), lambda, P),
                      p1[2], P), LAMBDA y3 :
         MkPoint(x3, y3))))

\* double_point taking the slope from 2 * x^2, not 3 * x^2.
double_point_wrong_slope(p1) ==
    IF p1 = PanicPoint THEN PanicPoint
    ELSE IF is_zero_point(p1) THEN zero_point
    ELSE IF is_zero(p1[2]) THEN zero_point
    ELSE Bind(div_mod(mul_mod(mul_mod(p1[1], p1[1], P), 2, P),
                      mul_mod(p1[2], 2, P), P), LAMBDA lambda :
         Bind(sub_mod(sub_mod(mul_mod(lambda, lambda, P), p1[1], P),
                      p1[1], P), LAMBDA x3 :
         Bind(sub_mod(mul_mod(sub_mod(p1[1], x3, P), lambda, P),
                      p1[2], P), LAMBDA y3 :
         MkPoint(x3, y3))))

\* SECP256K1::double_point
double_point(p1) ==
    IF p1 = PanicPoint THEN PanicPoint
    ELSE IF is_zero_point(p1) THEN zero_point
    ELSE IF is_zero(p1[2]) THEN zero_point
    ELSE Bind(div_mod(mul_mod(mul_mod(p1[1], p1[1], P), 3, P),
                      mul_mod(p1[2], 2, P), P), LAMBDA lambda :
         Bind(sub_mod(sub_mod(mul_mod(lambda, lambda, P), p1[1], P),
                      p1[1], P), LAMBDA x3 :
         Bind(sub_mod(mul_mod(sub_mod(p1[1], x3, P), lambda, P),
                      p1[2], P), LAMBDA y3 :
         MkPoint(x3, y3))))

\* The double-and-add loop of scalar_multiplication from iteration i on: the
\* result after the last iteration.
RECURSIVE scalar_loop(_, _, _, _, _)
scalar_loop(scalar, seq_bit_size, i, result, adder) ==
    IF result = PanicPoint \/ adder = PanicPoint THEN PanicPoint
    ELSE IF i >= seq_bit_size THEN result
    ELSE scalar_loop(scalar, seq_bit_size, i + 1,
                     IF bit(scalar, i) THEN add_points(result, adder)
                                       ELSE result,
                     double_point(adder))

\* scalar_multiplication starting its result at the base point, not at the
\* identity.
scalar_begin_at_point(curve_point) == <<curve_point, curve_point>>

\* The result and the adder scalar_multiplication enters its loop with.
scalar_begin(curve_point) == <<zero_point, curve_point>>

\* SECP256K1::scalar_multiplication
scalar_multiplication(scalar, curve_point) ==
    IF scalar = Panic \/ curve_point = PanicPoint THEN PanicPoint
    ELSE scalar_loop(scalar, bits(scalar), 0,
                     scalar_begin(curve_point)[1], scalar_begin(curve_point)[2])

\* SECP256K1::public_key
public_key(private_key) == scalar_multiplication(private_key, g)

----------------------------------------------------------------------------
(* ECDSA                                                                    *)

\* A Signature { s, r } is the pair <<r, s>>; PanicSig when signing panicked.
PanicSig == <<Panic, Panic>>

\* sign_message, with the digest of the message and the nonce that
\* rng.gen() drew as arguments.
sign_message(hash, private_key, nonce_num) ==
    Bind(scalar_multiplication(nonce_num, g), LAMBDA nonce_point :
    Bind(nonce_point[1], LAMBDA r :
    Bind(div_mod(add_mod(mul_mod(r, private_key, N), hash, N),
                 nonce_num, N), LAMBDA s :
    IF r = Panic \/ s = Panic THEN PanicSig ELSE <<r, s>>)))

\* The two scalar multiples verify_message adds: u1 * G and u2 * pub_key,
\* with w = 1 / s, u1 = hash * w and u2 = r * w modulo n.
verify_u1_point(hash, signature) ==
    Bind(div_mod(1, signature[2], N), LAMBDA w :
    Bind(mul_mod(hash, w, N), LAMBDA u1 :
    scalar_multiplication(u1, g)))

verify_u2_point(pub_key, signature) ==
    Bind(div_mod(1, signature[2], N), LAMBDA w :
    Bind(mul_mod(signature[1], w, N), LAMBDA u2 :
    scalar_multiplication(u2, pub_key)))

\* verify_message, with the digest of the message as argument: "true" or
\* "false" as the call returns, "panic" when it panicked.
verify_message(hash, pub_key, signature) ==
    IF signature = PanicSig \/ pub_key = PanicPoint THEN "panic"
    ELSE Bind(verify_u1_point(hash, signature), LAMBDA u1_point :
         Bind(verify_u2_point(pub_key, signature), LAMBDA u2_point :
         Bind(add_points(u1_point, u2_point), LAMBDA verification_point :
         IF verification_point = PanicPoint THEN "panic"
         ELSE IF verification_point[1] = signature[1] THEN "true"
         ELSE "false")))

----------------------------------------------------------------------------
(* The state: one call of the RU256 arithmetic, one call of the curve       *)
(* operations, or one run of the ECDSA protocol, with the inputs each was   *)
(* given.                                                                   *)

VARIABLES
    ru_op,      \* the RU256 operation(s) applied so far, "none" before
    ru_self,    \* the receiver of the call (self)
    ru_b,       \* its argument b (the exponent e of exp_mod)
    ru_p,       \* its modulus p
    ru_res,     \* the value the last call returned, Panic when it panicked
    pc,         \* "start", "signed", "received", "verified"; "off" when unused
    message,    \* the digest of the message given to sign_message
    priv,       \* the private key given to sign_message
    nonce,      \* the nonce sign_message drew
    sig,        \* the signature: returned by sign_message, or handed in
    v_message,  \* the digest of the message given to verify_message
    v_key,      \* the public key given to verify_message
    verdict,    \* what verify_message returned: "true", "false", "panic"
    cv_op,      \* the curve operation applied, "none" before, "scalar_loop"
                \* inside the loop of scalar_multiplication
    cv_p1,      \* the first point given (p1, curve_point)
    cv_p2,      \* the second point given to add_points (p2)
    cv_scalar,  \* the scalar given to scalar_multiplication
    cv_i,       \* the iteration the loop of scalar_multiplication is at
    cv_result,  \* the point returned, PanicPoint when the call panicked;
                \* inside the loop, its result so far
    cv_adder    \* inside the loop, its adder

ru_vars == <<ru_op, ru_self, ru_b, ru_p, ru_res>>
ecdsa_vars == <<pc, message, priv, nonce, sig, v_message, v_key, verdict>>
curve_vars == <<cv_op, cv_p1, cv_p2, cv_scalar, cv_i, cv_result, cv_adder>>
vars == <<ru_op, ru_self, ru_b, ru_p, ru_res,
          pc, message, priv, nonce, sig, v_message, v_key, verdict,
          cv_op, cv_p1, cv_p2, cv_scalar, cv_i, cv_result, cv_adder>>

\* No signature yet.
NoSig == <<>>

----------------------------------------------------------------------------
(* Bounds of the inputs                                                     *)

\* Operands of the arithmetic: self is within OperandBand of 0 or of MAX, or
\* is the largest residue of N or P; b is any word.
OperandBand == 5
\* Moduli: within ModulusBand of 0 or of MAX, or N or P.
ModulusBand == 5
\* Digests signed and verified: 0 .. MaxDigest, and N, N + 1 and MAX.
MaxDigest == 20
\* Private keys 1 .. MaxKey and N - 1; nonces 1 .. MaxNonce and N - 1.
MaxKey == 6
MaxNonce == 6
\* Signatures handed to verify_message by someone else: every r, and s
\* within MaxForgedS of 0 or of N, for digests 0 .. MaxForgedDigest and the
\* public keys of 0 .. MaxForgedKey.
MaxForgedS == 3
MaxForgedDigest == 2
MaxForgedKey == 2

Selfs == (0 .. OperandBand) \cup (MAX - OperandBand .. MAX) \cup {N - 1, P - 1}
Moduli == (0 .. ModulusBand) \cup (MAX - ModulusBand .. MAX) \cup {N, P}
Digests == (0 .. MaxDigest) \cup {N, N + 1, MAX}
PrivateKeys == (1 .. MaxKey) \cup {N - 1}
Nonces == (1 .. MaxNonce) \cup {N - 1}
ForgedS == (0 .. MaxForgedS) \cup (N .. N + MaxForgedS)
ForgedKeys == {public_key(k) : k \in 0 .. MaxForgedKey}

----------------------------------------------------------------------------
(* The RU256 arithmetic: one call on drawn inputs, and the two chains of    *)
(* calls the laws of the arithmetic are stated on.                          *)

EcdsaOff ==
    /\ pc = "off" /\ message = 0 /\ priv = 0 /\ nonce = 0 /\ sig = NoSig
    /\ v_message = 0 /\ v_key = zero_point /\ verdict = "none"

CurveOff ==
    /\ cv_op = "off" /\ cv_p1 = zero_point /\ cv_p2 = zero_point
    /\ cv_scalar = 0 /\ cv_i = 0 /\ cv_result = zero_point
    /\ cv_adder = zero_point

InitRU256 ==
    /\ ru_op = "none"
    /\ ru_self \in Selfs
    /\ ru_b \in RU256
    /\ ru_p \in Moduli
    /\ ru_res = 0
    /\ EcdsaOff
    /\ CurveOff

\* self.add_mod(b, p)
AddMod ==
    /\ ru_op = "none"
    /\ ru_res' = add_mod(ru_self, ru_b, ru_p)
    /\ ru_op' = "add_mod"
    /\ UNCHANGED <<ru_self, ru_b, ru_p, ecdsa_vars, curve_vars>>

\* self.sub_mod(b, p), and self.add_mod(b, p).sub_mod(b, p)
SubMod ==
    /\ \/ /\ ru_op = "none"
          /\ ru_res' = sub_mod(ru_self, ru_b, ru_p)
          /\ ru_op' = "sub_mod"
       \/ /\ ru_op = "add_mod"
          /\ ru_res # Panic
          /\ ru_res' = sub_mod(ru_res, ru_b, ru_p)
          /\ ru_op' = "add_mod.sub_mod"
    /\ UNCHANGED <<ru_self, ru_b, ru_p, ecdsa_vars, curve_vars>>

\* self.mul_mod(b, p), and b.mul_mod(self.div_mod(b, p), p)
MulMod ==
    /\ \/ /\ ru_op = "none"
          /\ ru_res' = mul_mod(ru_self, ru_b, ru_p)
          /\ ru_op' = "mul_mod"
       \/ /\ ru_op = "div_mod"
          /\ ru_res # Panic
          /\ ru_res' = mul_mod(ru_b, ru_res, ru_p)
          /\ ru_op' = "div_mod.mul_mod"
    /\ UNCHANGED <<ru_self, ru_b, ru_p, ecdsa_vars, curve_vars>>

\* self.exp_mod(b, p)
ExpMod ==
    /\ ru_op = "none"
    /\ ru_res' = exp_mod(ru_self, ru_b, ru_p)
    /\ ru_op' = "exp_mod"
    /\ UNCHANGED <<ru_self, ru_b, ru_p, ecdsa_vars, curve_vars>>

\* self.div_mod(b, p)
DivMod ==
    /\ ru_op = "none"
    /\ ru_res' = div_mod(ru_self, ru_b, ru_p)
    /\ ru_op' = "div_mod"
    /\ UNCHANGED <<ru_self, ru_b, ru_p, ecdsa_vars, curve_vars>>

NextRU256 == AddMod \/ SubMod \/ MulMod \/ ExpMod \/ DivMod

SpecRU256 == InitRU256 /\ [][NextRU256]_vars

----------------------------------------------------------------------------
(* ECDSA: a signer signs a message and the signature is verified, for the   *)
(* signed message or another one, under the signer's key or another one; or *)
(* verify_message is handed a signature that no call of sign_message made.  *)

RU256Off ==
    ru_op = "off" /\ ru_self = 0 /\ ru_b = 0 /\ ru_p = 0 /\ ru_res = 0

Init ==
    /\ RU256Off
    /\ CurveOff
    /\ verdict = "none"
    /\ \/ /\ pc = "start"
          /\ message \in Digests
          /\ priv \in PrivateKeys
          /\ nonce \in Nonces
          /\ sig = NoSig
          /\ v_message = 0
          /\ v_key = zero_point
       \/ /\ pc = "received"
          /\ message = 0 /\ priv = 0 /\ nonce = 0
          /\ sig \in RU256 \X ForgedS
          /\ v_message \in 0 .. MaxForgedDigest
          /\ v_key \in ForgedKeys

\* sign_message(message, private_key), the nonce being the one drawn
Sign ==
    /\ pc = "start"
    /\ sig' = sign_message(message, priv, nonce)
    /\ pc' = "signed"
    /\ UNCHANGED <<message, priv, nonce, v_message, v_key, verdict, ru_vars,
                   curve_vars>>

\* verify_message(message, pub_key, signature): on the signature just made,
\* for any message under the signer's key or for the signed message under
\* any key; or on the signature handed in.
Verify ==
    /\ \/ /\ pc = "signed"
          /\ sig # PanicSig
          /\ \E m \in Digests, k \in PrivateKeys :
                /\ m = message \/ k = priv
                /\ v_message' = m
                /\ v_key' = public_key(k)
                /\ verdict' = verify_message(m, v_key', sig)
       \/ /\ pc = "received"
          /\ verdict' = verify_message(v_message, v_key, sig)
          /\ UNCHANGED <<v_message, v_key>>
    /\ pc' = "verified"
    /\ UNCHANGED <<message, priv, nonce, sig, ru_vars, curve_vars>>

Next == Sign \/ Verify

Spec == Init /\ [][Next]_vars

----------------------------------------------------------------------------
(* Signing alone: sign_message for any nonce its 32 random bytes can be.    *)

\* Digests signed here: 0 .. MaxSignDigest and MAX.
MaxSignDigest == 2

InitSign ==
    /\ RU256Off
    /\ CurveOff
    /\ pc = "start"
    /\ message \in (0 .. MaxSignDigest) \cup {MAX}
    /\ priv \in PrivateKeys
    /\ nonce \in RU256
    /\ sig = NoSig
    /\ v_message = 0
    /\ v_key = zero_point
    /\ verdict = "none"

SpecSign == InitSign /\ [][Sign]_vars

----------------------------------------------------------------------------
(* The curve: one call of add_points or double_point on points of the       *)
(* curve, or one call of scalar_multiplication, followed through its loop.  *)

\* The points of the curve y^2 = x^3 + 7 over the field of P elements, and
\* with them the identity.
CurvePoints ==
    {pt \in (0 .. P - 1) \X (0 .. P - 1) :
        (pt[2] * pt[2]) % P = (pt[1] * pt[1] * pt[1] + 7) % P}

Points == CurvePoints \cup {zero_point}

\* Base points of scalar_multiplication: the points with x <= MaxBaseX.
MaxBaseX == 4

BasePoints == {pt \in CurvePoints : pt[1] <= MaxBaseX}

InitCurve ==
    /\ RU256Off
    /\ EcdsaOff
    /\ cv_op = "none"
    /\ cv_i = 0
    /\ cv_result = zero_point
    /\ cv_adder = zero_point
    /\ \/ /\ cv_p1 \in Points
          /\ cv_p2 \in Points
          /\ cv_scalar = 0
       \/ /\ cv_p1 \in BasePoints
          /\ cv_p2 = zero_point
          /\ cv_scalar \in RU256

\* SECP256K1::add_points(p1, p2)
AddPoints ==
    /\ cv_op = "none"
    /\ cv_result' = add_points(cv_p1, cv_p2)
    /\ cv_op' = "add_points"
    /\ UNCHANGED <<cv_p1, cv_p2, cv_scalar, cv_i, cv_adder, ru_vars, ecdsa_vars>>

\* SECP256K1::double_point(p1)
DoublePoint ==
    /\ cv_op = "none"
    /\ cv_result' = double_point(cv_p1)
    /\ cv_op' = "double_point"
    /\ UNCHANGED <<cv_p1, cv_p2, cv_scalar, cv_i, cv_adder, ru_vars, ecdsa_vars>>

\* SECP256K1::scalar_multiplication(scalar, curve_point) up to its loop
ScalarBegin ==
    /\ cv_op = "none"
    /\ cv_result' = scalar_begin(cv_p1)[1]
    /\ cv_adder' = scalar_begin(cv_p1)[2]
    /\ cv_i' = 0
    /\ cv_op' = "scalar_loop"
    /\ UNCHANGED <<cv_p1, cv_p2, cv_scalar, ru_vars, ecdsa_vars>>

\* One iteration of the loop; a panic of add_points ends the call.
ScalarStep ==
    /\ cv_op = "scalar_loop"
    /\ cv_i < bits(cv_scalar)
    /\ cv_result' = IF bit(cv_scalar, cv_i)
                    THEN add_points(cv_result, cv_adder)
                    ELSE cv_result
    /\ IF cv_result' = PanicPoint
       THEN cv_op' = "scalar_multiplication" /\ UNCHANGED <<cv_adder, cv_i>>
       ELSE /\ cv_adder' = double_point(cv_adder)
            /\ cv_i' = cv_i + 1
            /\ cv_op' = "scalar_loop"
    /\ UNCHANGED <<cv_p1, cv_p2, cv_scalar, ru_vars, ecdsa_vars>>

\* The loop is over: scalar_multiplication returns its result.
ScalarEnd ==
    /\ cv_op = "scalar_loop"
    /\ cv_i >= bits(cv_scalar)
    /\ cv_op' = "scalar_multiplication"
    /\ UNCHANGED <<cv_p1, cv_p2, cv_scalar, cv_i, cv_result, cv_adder,
                   ru_vars, ecdsa_vars>>

NextCurve == AddPoints \/ DoublePoint \/ ScalarBegin \/ ScalarStep \/ ScalarEnd

SpecCurve == InitCurve /\ [][NextCurve]_vars


----------------------------------------------------------------------------
(* Properties of sign_message and verify_message, on Spec                   *)

\* A run in which sign_message made the signature (private keys are >= 1).
Signed == priv # 0

\* C1: sign/verify round trip. For every private key d in [1, n-1], every
\* digest and every nonce in [1, n-1], sign_message completes, and
\* verify_message of the same message under public_key(d) completes and
\* returns true.
C1_RoundTrip ==
    /\ pc = "signed" => sig # PanicSig
    /\ (pc = "verified" /\ Signed /\ v_message = message
            /\ v_key = public_key(priv))
        => verdict = "true"

\* A structurally invalid signature: r = 0, s = 0, r >= n or s >= n.
StructurallyInvalid(signature) ==
    \/ signature[1] = 0
    \/ signature[2] = 0
    \/ signature[1] >= N
    \/ signature[2] >= N

\* C2: verify_message never panics on a structurally invalid signature: for
\* every message and public key it returns false.
C2_InvalidSignatureFalse ==
    (pc = "verified" /\ StructurallyInvalid(sig)) => verdict = "false"

\* C3: a signature does not verify for a different message. For a signature
\* made by sign_message for a digest, verify_message under the signer's
\* public key returns false for every digest that differs from it modulo n.
C3_DifferentMessageFalse ==
    (pc = "verified" /\ Signed /\ v_key = public_key(priv)
        /\ (v_message % N) # (message % N))
        => verdict = "false"

\* C4: a signature does not verify under a different key. For a signature
\* made by sign_message under d, verify_message of the same message under
\* the public key of any other private key in [1, n-1] returns false.
C4_DifferentKeyFalse ==
    (pc = "verified" /\ Signed /\ v_message = message
        /\ v_key # public_key(priv))
        => verdict = "false"

\* C5: when u1 * G and u2 * pub_key are the same point, verify_message takes
\* their sum to be the doubling of that point and returns a boolean: the
\* assertion of add_points that its arguments differ is not reached.
C5_EqualPointsDoubled ==
    (pc = "verified"
        /\ verify_u1_point(v_message, sig) = verify_u2_point(v_key, sig))
        => verdict = (IF double_point(verify_u1_point(v_message, sig))[1]
                            = sig[1]
                      THEN "true" ELSE "false")

----------------------------------------------------------------------------
(* Properties of the RU256 arithmetic, on SpecRU256                         *)

\* The primes that fit a word.
Primes == {q \in 2 .. MAX : \A d \in 2 .. q - 1 : q % d # 0}

\* C6: add_mod is exact under native overflow. For all words a, b and every
\* modulus 1 <= p <= 2^W - 1, add_mod(a, b, p) is
\* ((a mod p) + (b mod p)) mod p over the integers, and none of its checked
\* operations fails.
C6_AddModExact ==
    (ru_op = "add_mod" /\ ru_p >= 1)
        => ru_res = ((ru_self % ru_p) + (ru_b % ru_p)) % ru_p

\* add_mod was called with reduced operands whose native sum overflows.
C6_Overflowed ==
    /\ ru_op = "add_mod"
    /\ ru_p >= 1
    /\ (ru_self % ru_p) + (ru_b % ru_p) > MAX
    /\ ru_res # Panic

\* C7: mul_mod is exact for unreduced operands. For all words a, b, below p
\* or not, and every modulus p >= 1, mul_mod(a, b, p) is (a * b) mod p over
\* the integers, whichever reduced operand drives the double-and-add loop.
C7_MulModExact ==
    (ru_op = "mul_mod" /\ ru_p >= 1) => ru_res = (ru_self * ru_b) % ru_p

\* mul_mod was called with two operands not below p, the second of which
\* is the smaller once reduced and drives the loop.
C7_Unreduced ==
    /\ ru_op = "mul_mod"
    /\ ru_p >= 1
    /\ ru_self >= ru_p
    /\ ru_b >= ru_p
    /\ 1 < ru_b % ru_p
    /\ ru_b % ru_p < ru_self % ru_p
    /\ ru_res # Panic

\* C8: subtraction undoes addition. For all words a, b and every prime
\* p > 2, a.add_mod(b, p).sub_mod(b, p) is a mod p, and sub_mod never takes a
\* native difference that underflows.
C8_SubUndoesAdd ==
    (ru_p \in Primes /\ ru_p > 2)
        => /\ ru_op = "add_mod.sub_mod" => ru_res = ru_self % ru_p
           /\ ru_op = "sub_mod" => ru_res # Panic

\* add_mod wrapped around p and sub_mod took it back, for a and b not below
\* p.
C8_Undone ==
    /\ ru_op = "add_mod.sub_mod"
    /\ ru_p \in Primes
    /\ ru_p > 2
    /\ ru_self > ru_p
    /\ ru_b > ru_p
    /\ (ru_self % ru_p) + (ru_b % ru_p) > ru_p
    /\ ru_res = ru_self % ru_p

\* C9: division yields the multiplicative inverse. For every prime p > 2 and
\* every a with a mod p # 0, a.mul_mod(one.div_mod(a, p), p) is one.
C9_DivInverse ==
    (ru_op = "div_mod.mul_mod" /\ ru_self = one /\ ru_p \in Primes
        /\ ru_p > 2 /\ ru_b % ru_p # 0)
        => ru_res = one

\* one was divided by an a that is not its own inverse, and a times the
\* quotient is one.
C9_Inverted ==
    /\ ru_op = "div_mod.mul_mod"
    /\ ru_self = one
    /\ ru_p \in Primes
    /\ ru_p > 2
    /\ (ru_b * ru_b) % ru_p # 1
    /\ ru_b % ru_p # 0
    /\ ru_res = one

\* C10: div_mod rejects small moduli. For every a and b, div_mod(a, b, p)
\* fails for p = 0, p = 1 and p = 2, and returns a value for every p > 2.
C10_DivModSmallModulus ==
    ru_op = "div_mod"
        => /\ ru_p <= 2 => ru_res = Panic
           /\ ru_p > 2 => ru_res # Panic

\* div_mod was called with p = 2 and failed.
C10_Rejected == ru_op = "div_mod" /\ ru_p = 2 /\ ru_res = Panic

----------------------------------------------------------------------------
(* Properties of the curve operations, on SpecCurve                         *)

\* The loop of scalar_multiplication returns what the operator
\* scalar_multiplication, which sign_message and verify_message use, returns.
LoopIsScalarMultiplication ==
    cv_op = "scalar_multiplication"
        => cv_result = scalar_multiplication(cv_scalar, cv_p1)
\* C11: identity law of add_points. Whenever an operand of add_points is
\* the identity (0, 0), the call returns the other operand unchanged:
\* add_points(identity, P), add_points(P, identity) and
\* add_points(identity, identity), which returns the identity.
C11_IdentityLaw ==
    cv_op = "add_points"
        => /\ is_zero_point(cv_p1) => cv_result = cv_p2
           /\ is_zero_point(cv_p2) => cv_result = cv_p1

\* The inverses modulo P, and the group law of the curve as it is defined:
\* the identity is neutral, a point and its negation add to the identity, a
\* point added to itself takes the tangent, two other points the chord.
InvP == [a \in 1 .. P - 1 |-> CHOOSE z \in 1 .. P - 1 : (a * z) % P = 1] @@ <<>>

RefSlope(q1, q2) ==
    IF q1 = q2
    THEN (3 * q1[1] * q1[1] * InvP[(2 * q1[2]) % P]) % P
    ELSE ((q2[2] - q1[2] + P) * InvP[(q2[1] - q1[1] + P) % P]) % P

RefX(q1, q2) ==
    (RefSlope(q1, q2) * RefSlope(q1, q2) + 2 * P - q1[1] - q2[1]) % P

RefAdd(q1, q2) ==
    IF q1 = zero_point THEN q2
    ELSE IF q2 = zero_point THEN q1
    ELSE IF q1[1] = q2[1] /\ (q1[2] + q2[2]) % P = 0 THEN zero_point
    ELSE <<RefX(q1, q2),
           (RefSlope(q1, q2) * (q1[1] + P - RefX(q1, q2)) + P - q1[2]) % P>>

\* The k-fold sum G + ... + G, for k in 0 .. N - 1, bracketed in halves
\* (the group law is associative).
RECURSIVE RefFold(_)
RefFold(k) ==
    IF k = 0 THEN zero_point
    ELSE IF k = 1 THEN g
    ELSE RefAdd(RefFold(k \div 2), RefFold(k - (k \div 2)))

RefSum == [k \in 0 .. N - 1 |-> RefFold(k)] @@ <<>>

\* C12: scalar_multiplication computes the group multiple. For every scalar
\* k in [0, n-1], scalar_multiplication(k, G), and so public_key(k), is the
\* k-fold sum G + ... + G of the group law; for k = 0 it is the identity and
\* for k = n - 1 the negation of G.
C12_ScalarMultiple ==
    (cv_op = "scalar_multiplication" /\ cv_p1 = g /\ cv_scalar < N)
        => /\ cv_result = RefSum[cv_scalar]
           /\ public_key(cv_scalar) = RefSum[cv_scalar]
           /\ cv_scalar = 0 => cv_result = zero_point
           /\ cv_scalar = N - 1 => cv_result = <<Gx, P - Gy>>

\* scalar_multiplication(n - 1, G) returned the negation of G.
C12_NegationOfG ==
    /\ cv_op = "scalar_multiplication"
    /\ cv_p1 = g
    /\ cv_scalar = N - 1
    /\ cv_result = <<Gx, P - Gy>>

\* C13: every signature sign_message returns has both components reduced
\* modulo the group order: 0 <= r < n and 0 <= s < n, for every message,
\* private key and nonce.
C13_SignatureReduced ==
    pc = "signed"
        => /\ sig # PanicSig
           /\ 0 <= sig[1] /\ sig[1] < N
           /\ 0 <= sig[2] /\ sig[2] < N

\* C14: closure of the group operations. From points that are the identity
\* or on the curve, every point returned by add_points on two distinct
\* operands (two inverse points included), by double_point and by
\* scalar_multiplication for any scalar of the word is the identity or on
\* the curve.
C14_Closure ==
    (\/ cv_op = "add_points" /\ cv_p1 # cv_p2
     \/ cv_op = "double_point"
     \/ cv_op = "scalar_multiplication")
        => cv_result \in Points

\* C15: the assertion of add_points that its operands differ holds on every
\* call the loop of scalar_multiplication makes. For every point of order n
\* and every scalar of the word, 2^(W-1) < n, at each iteration whose scalar
\* bit is set the result so far differs from the adder, and the call does
\* not panic.
C15_LoopOperandsDiffer ==
    (Pow2(W - 1) < N /\ cv_p1 \in CurvePoints)
        => /\ (cv_op = "scalar_loop" /\ cv_i < bits(cv_scalar)
                  /\ bit(cv_scalar, cv_i))
               => cv_result # cv_adder
           /\ cv_op = "scalar_multiplication" => cv_result # PanicPoint

\* The loop is at its last iteration, for a scalar above n whose top bit is
\* set, with a result so far that is not the identity and differs from the
\* adder.
C15_TopBitAdded ==
    /\ cv_op = "scalar_loop"
    /\ cv_p1 \in CurvePoints
    /\ cv_scalar > N
    /\ cv_i = W - 1
    /\ bit(cv_scalar, cv_i)
    /\ ~is_zero_point(cv_result)
    /\ cv_result # cv_adder

====
